---- MODULE Spec2Model ----
(***************************************************************************)
(* Model of the DataFusion benchmark runner, datafusion/src/main.rs:       *)
(* main() binds the eight TPC-H tables, runs one query or the suite        *)
(* 1..=22 through execute_query(), and writes the results file.            *)
(*                                                                         *)
(* The program is sequential; pc is the position of the single thread of   *)
(* control.  The environment (data directory, query directory, engine      *)
(* latencies and result sizes) is fixed by Init; I/O and engine errors     *)
(* are chosen when the fallible call is made, at most MaxFaults per run.   *)
(***************************************************************************)
EXTENDS Integers, Sequences, FiniteSets, TLC

\* ------------------------------------------------------------------ bounds
MaxIter == 2        \* --iterations is drawn from 0..MaxIter
MaxFaults == 1      \* injected engine / I/O errors per run
MaxSeed == 1        \* environments: query directory, latencies, result sizes
TextLen == 3        \* characters in a query file
MaxMissing == 2     \* data files absent from the data directory

\* --------------------------------------------------------------- constants
TABLES == <<"customer", "lineitem", "nation", "orders",
            "part", "partsupp", "region", "supplier">>

FirstQuery == 1
LastQuery == 22

None == 0           \* Option<u8>::None for --query

VARIABLES
    opt,                    \* [query, iterations]: the parsed command line
    seed,                   \* selects the environment
    dataFiles,              \* tables whose <data_path>/<table>.parquet exists
    queryDirExists,         \* whether <query_path> holds the query files
    pc,                     \* position in main / execute_query
    exit,                   \* "running", "ok", "err" (main returned Err), "panic"
    error,                  \* the error main returned: <<kind, detail>>
    results,                \* the Results record
    registered,             \* tables registered in the SessionContext, in order
    query,                  \* query_no of the current / next call
    sql,                    \* execute_query: the statement batch
    durations,              \* execute_query: per-iteration totals
    iteration,              \* execute_query: outer loop index
    total_duration_millis,  \* execute_query: running total of the iteration
    i,                      \* execute_query: statement index (0-based)
    sinceStart,             \* time passed since `start = Instant::now()`
    batches,                \* number of record batches collect() returned
    written,                \* artifact files written by the current call
    attempted,              \* "Executing query N" lines printed so far
    failed,                 \* "Fail: ..." lines printed so far: <<query, kind>>
    report,                 \* [state, data, buffered, writes]: the results file
    faults                  \* errors injected so far

inputs == <<opt, seed, dataFiles, queryDirExists>>
locals == <<sql, durations, iteration, total_duration_millis, i, sinceStart, batches>>
vars == <<opt, seed, dataFiles, queryDirExists, pc, exit, error, results,
          registered, query, sql, durations, iteration, total_duration_millis,
          i, sinceStart, batches, written, attempted, failed, report, faults>>

\* ------------------------------------------------------------- environment
Chars == <<"a", ";", " ">>

RECURSIVE Pow3(_)
Pow3(n) == IF n = 0 THEN 1 ELSE 3 * Pow3(n - 1)

\* The n-th text of TextLen characters over Chars.
TextOf(n) == [j \in 1..TextLen |-> Chars[((n \div Pow3(j - 1)) % 3) + 1]]

\* Contents of <query_path>/q<q>.sql in environment `seed`.
QueryFile(q) == TextOf(((q - 1) + seed * LastQuery) % Pow3(TextLen))

\* Engine latencies (ms) and result sizes in environment `seed`.
SqlTime(q, it, n) == (seed + q + n) % 2
CollectTime(q, it, n) == (seed + q + it + 2 * n) % 3
NumBatches(q, n) == (seed + q + 2 * n) % 3
SetupTime == seed + 1
EngineConfig == {<<"target_partitions", seed + 1>>}

\* Whether a fallible call may fail now.
Outcomes == IF faults < MaxFaults THEN {TRUE, FALSE} ELSE {TRUE}
Spend(ok) == faults' = faults + (IF ok THEN 0 ELSE 1)

\* ------------------------------------------------------- query splitting
\* str::split(';'): the fragments between separators, empty ones included.
RECURSIVE SplitFrom(_, _, _)
SplitFrom(s, j, cur) ==
    IF j > Len(s) THEN <<cur>>
    ELSE IF s[j] = ";" THEN <<cur>> \o SplitFrom(s, j + 1, <<>>)
    ELSE SplitFrom(s, j + 1, Append(cur, s[j]))

Split(s) == SplitFrom(s, 1, <<>>)

\* s.trim().is_empty()
TrimIsEmpty(s) == \A j \in 1..Len(s) : s[j] = " "

\* Mutant: the fragments are not filtered.
StatementsUnfiltered(text) == Split(text)

\* .filter(|s| !s.trim().is_empty()).collect()
Statements(text) == SelectSeq(Split(text), LAMBDA s : ~TrimIsEmpty(s))

\* ---------------------------------------------------------------- Results
NewResults ==
    [system_time |-> 1000 + seed,
     datafusion_version |-> "DATAFUSION_VERSION",
     config |-> {},
     command_line_args |-> <<"bench">>,
     register_tables_time |-> 0,
     query_times |-> <<>>]

DataDirs == {S \in SUBSET {TABLES[n] : n \in 1..Len(TABLES)} :
                Cardinality(S) >= Len(TABLES) - MaxMissing}

Init ==
    /\ opt \in [query : {None} \cup (FirstQuery..LastQuery), iterations : 0..MaxIter]
    /\ seed \in 0..MaxSeed
    /\ dataFiles \in DataDirs
    /\ queryDirExists \in BOOLEAN
    /\ pc = "config"
    /\ exit = "running"
    /\ error = <<>>
    /\ results = NewResults
    /\ registered = <<>>
    /\ query = 0
    /\ sql = <<>>
    /\ durations = <<>>
    /\ iteration = 0
    /\ total_duration_millis = 0
    /\ i = 0
    /\ sinceStart = 0
    /\ batches = 0
    /\ written = <<>>
    /\ attempted = <<>>
    /\ failed = <<>>
    /\ report = [state |-> "absent", data |-> <<>>, buffered |-> FALSE, writes |-> 0]
    /\ faults = 0

\* -------------------------------------------------------------------- main
\* main returns Err(e): the process exits with a failure status.
MainErr(e) ==
    /\ pc' = "done"
    /\ exit' = "err"
    /\ error' = e

\* Lines 100-106: the session configuration is copied into the results.
Configure ==
    /\ pc = "config"
    /\ results' = [results EXCEPT !.config = EngineConfig]
    /\ pc' = "register"
    /\ UNCHANGED <<inputs, locals, exit, error, registered, query, written,
                   attempted, failed, report, faults>>

\* Mutant: the existence check always succeeds.
PathExistsAlways(table) == TRUE

\* Line 112: Path::new(&path).exists()
PathExists(table) == table \in dataFiles

\* Lines 110-121: one turn of the loop over TABLES.
RegisterTable ==
    /\ pc = "register"
    /\ Len(registered) < Len(TABLES)
    /\ LET table == TABLES[Len(registered) + 1] IN
       IF PathExists(table)
       THEN \E ok \in Outcomes :
               /\ Spend(ok)
               /\ IF ok
                  THEN /\ registered' = Append(registered, table)
                       /\ UNCHANGED <<pc, exit, error>>
                  ELSE /\ MainErr(<<"register_parquet", table>>)
                       /\ UNCHANGED registered
       ELSE /\ MainErr(<<"Path does not exist", table>>)
            /\ UNCHANGED <<registered, faults>>
    /\ UNCHANGED <<inputs, locals, results, query, written, attempted, failed, report>>

\* Mutant: the setup time is printed and not stored.
RecordTableTimeDropped(r, t) == r

\* Line 124: results.register_tables_time = setup_time
RecordTableTime(r, t) == [r EXCEPT !.register_tables_time = t]

\* Lines 122-124: the loop is over; the setup time is recorded.
RecordSetupTime ==
    /\ pc = "register"
    /\ Len(registered) = Len(TABLES)
    /\ results' = RecordTableTime(results, SetupTime)
    /\ pc' = "match"
    /\ UNCHANGED <<inputs, locals, exit, error, registered, query, written,
                   attempted, failed, report, faults>>

\* Lines 126-127, 139-140: `match opt.query`, up to the call of execute_query.
Dispatch ==
    /\ pc = "match"
    /\ query' = IF opt.query # None THEN opt.query ELSE FirstQuery
    /\ pc' = "read"
    /\ UNCHANGED <<inputs, locals, exit, error, results, registered, written,
                   attempted, failed, report, faults>>

\* ----------------------------------------------------------- execute_query
\* Mutant: the part suffix is 0-based.
FileSuffixZeroBased(multipart, n) == IF multipart THEN n ELSE 0

\* Lines 199-203: "_part_{i+1}" when the batch has several statements.
FileSuffix(multipart, n) == IF multipart THEN n + 1 ELSE 0

Multipart == Len(sql) > 1

\* Lines 218-221, 227, 236: artifact file names, <<query_no, part, kind>>;
\* part 0 is the empty suffix.  A csv file's entry in `written` has a fourth
\* component, the number of batches written to it.
Artifact(kind) == <<query, FileSuffix(Multipart, i), kind>>

\* The error kinds of the failing calls.
ErrorKind(cause) ==
    CASE cause = "read_to_string" -> "QueryFileMissing"
      [] cause \in {"sql", "collect", "plan"} -> "EngineExecutionError"
      [] cause \in {"create", "write", "csv"} -> "ArtifactWriteError"

\* Mutant: a failure of the requested query still leads to the report.
AfterRequestedAlwaysReport(ok) == "report"

\* Lines 128-138: after the requested query, `.await?` returns the error
\* from main, and otherwise main goes on to the results file.
AfterRequested(ok) == IF ok THEN "report" ELSE "done"

\* Mutant: the range 1..22, exclusive.
InRangeExclusive(q) == q < LastQuery

\* Line 140: the range 1..=22.
InRange(q) == q <= LastQuery

\* What main does with the value execute_query returns.
\* Lines 128-138: `.await?` for a requested query; lines 141-155: the suite
\* prints "Fail: ..." and goes on to the next query of the range.
Return(ok, e) ==
    IF opt.query # None
    THEN /\ pc' = AfterRequested(ok)
         /\ exit' = IF ok THEN exit ELSE "err"
         /\ error' = IF ok THEN error ELSE e
         /\ UNCHANGED <<query, failed>>
    ELSE /\ failed' = IF ok THEN failed
                      ELSE Append(failed, <<query, ErrorKind(e[1])>>)
         /\ IF InRange(query + 1)
            THEN /\ query' = query + 1
                 /\ pc' = "read"
            ELSE /\ pc' = "report"
                 /\ UNCHANGED query
         /\ UNCHANGED <<exit, error>>

\* Lines 177-189: the file is read and split; the locals are initialised.
ReadQueryFile ==
    /\ pc = "read"
    /\ attempted' = Append(attempted, query)
    /\ written' = <<>>
    /\ \E ok \in (IF queryDirExists THEN Outcomes ELSE {FALSE}) :
          /\ faults' = faults + (IF ~ok /\ queryDirExists THEN 1 ELSE 0)
          /\ IF ok
             THEN /\ sql' = Statements(QueryFile(query))
                  /\ durations' = <<>>
                  /\ iteration' = 0
                  /\ pc' = "iter"
                  /\ UNCHANGED <<exit, error, query, failed>>
             ELSE /\ Return(FALSE, <<"read_to_string", query>>)
                  /\ UNCHANGED <<sql, durations, iteration>>
    /\ UNCHANGED <<inputs, results, registered, total_duration_millis, i,
                   sinceStart, batches, report>>

\* Lines 190-192: another iteration starts with a fresh total.
\* Mutant: the loop runs once more.
MoreIterationsInclusive == iteration <= opt.iterations

\* Line 190: 0..iterations
MoreIterations == iteration < opt.iterations

BeginIteration ==
    /\ pc = "iter"
    /\ MoreIterations
    /\ total_duration_millis' = 0
    /\ i' = 0
    /\ pc' = "stmt"
    /\ UNCHANGED <<inputs, exit, error, results, registered, query, sql, durations,
                   iteration, sinceStart, batches, written, attempted, failed,
                   report, faults>>

\* Mutant: the result replaces the earlier ones.
PushQueryTimesReplace(r, q, d) == [r EXCEPT !.query_times = <<<<q, d>>>>]

\* Mutant: the result is put in front of the earlier ones.
PushQueryTimesFront(r, q, d) == [r EXCEPT !.query_times = <<<<q, d>>>> \o @]

\* Lines 245-246: all iterations ran; the result is pushed and Ok returned.
PushQueryTimes(r, q, d) == [r EXCEPT !.query_times = Append(@, <<q, d>>)]

FinishQuery ==
    /\ pc = "iter"
    /\ ~MoreIterations
    /\ results' = PushQueryTimes(results, query, durations)
    /\ Return(TRUE, <<>>)
    /\ UNCHANGED <<inputs, locals, registered, written, attempted, report, faults>>

\* Mutant: `start` is not taken again for the statement.
StartInstantStale(elapsed) == elapsed

\* Line 205: let start = Instant::now(), after which no time has passed.
StartInstant(elapsed) == 0

\* Lines 194-205: the next statement; `start = Instant::now()`.
BeginStatement ==
    /\ pc = "stmt"
    /\ i < Len(sql)
    /\ sinceStart' = StartInstant(sinceStart)
    /\ pc' = "sql"
    /\ UNCHANGED <<inputs, exit, error, results, registered, query, sql, durations,
                   iteration, total_duration_millis, i, batches, written,
                   attempted, failed, report, faults>>

\* Line 243: the statements are done; the iteration's total is pushed.
EndIteration ==
    /\ pc = "stmt"
    /\ i >= Len(sql)
    /\ durations' = Append(durations, total_duration_millis)
    /\ iteration' = iteration + 1
    /\ pc' = "iter"
    /\ UNCHANGED <<inputs, exit, error, results, registered, query, sql,
                   total_duration_millis, i, sinceStart, batches, written,
                   attempted, failed, report, faults>>

\* Line 206: ctx.sql(sql).await?
CtxSql ==
    /\ pc = "sql"
    /\ \E ok \in Outcomes :
          /\ Spend(ok)
          /\ IF ok
             THEN /\ sinceStart' = sinceStart + SqlTime(query, iteration, i)
                  /\ pc' = "collect"
                  /\ UNCHANGED <<exit, error, query, failed>>
             ELSE /\ Return(FALSE, <<"sql", query>>)
                  /\ UNCHANGED sinceStart
    /\ UNCHANGED <<inputs, results, registered, sql, durations, iteration,
                   total_duration_millis, i, batches, written, attempted, report>>

\* Mutant: the statement's time replaces the running total.
AddDurationOverwrite(total, duration) == duration

\* Line 209: total_duration_millis += duration.as_millis()
AddDuration(total, duration) == total + duration

\* Mutant: the next statement is submitted without the artifacts.
AfterCollectSkipArtifacts(it) == "stmt"

\* Mutant: the artifacts are written in every iteration.
AfterCollectAlwaysArtifacts(it) == "plan_txt"

\* Line 215: if iteration == 0.
\* After a statement's artifacts (or at once when iteration > 0): next statement.
AfterCollect(it) == IF it = 0 THEN "plan_txt" ELSE "stmt"

\* Lines 207-213: df.collect().await?, start.elapsed(), the running total.
Collect ==
    /\ pc = "collect"
    /\ \E ok \in Outcomes :
          /\ Spend(ok)
          /\ IF ok
             THEN /\ sinceStart' = sinceStart + CollectTime(query, iteration, i)
                  /\ batches' = NumBatches(query, i)
                  /\ total_duration_millis' =
                         AddDuration(total_duration_millis, sinceStart')
                  /\ pc' = AfterCollect(iteration)
                  /\ i' = IF pc' = "stmt" THEN i + 1 ELSE i
                  /\ UNCHANGED <<exit, error, query, failed>>
             ELSE /\ Return(FALSE, <<"collect", query>>)
                  /\ UNCHANGED <<sinceStart, batches, total_duration_millis, i>>
    /\ UNCHANGED <<inputs, results, registered, sql, durations, iteration,
                   written, attempted, report>>

\* Failures of an artifact step, while errors may still be injected.
Failures(kinds) == IF faults < MaxFaults THEN kinds ELSE {}

\* Lines 216-223: the indented plan goes to q<N><suffix>_logical_plan.txt.
\* "plan": to_logical_plan()? fails; "create": File::create()? fails;
\* "write": write!()? fails after the file was created.
WritePlanTxt ==
    /\ pc = "plan_txt"
    /\ \E out \in {"ok"} \cup Failures({"plan", "create", "write"}) :
          /\ Spend(out = "ok")
          /\ written' = IF out \in {"ok", "write"}
                        THEN Append(written, Artifact("txt")) ELSE written
          /\ IF out = "ok"
             THEN /\ sinceStart' = sinceStart + 1
                  /\ pc' = "qpml"
                  /\ UNCHANGED <<exit, error, query, failed>>
             ELSE /\ Return(FALSE, <<out, query>>)
                  /\ UNCHANGED sinceStart
    /\ UNCHANGED <<inputs, results, registered, sql, durations, iteration,
                   total_duration_millis, i, batches, attempted, report>>

\* Lines 226-230: the QPML plan goes to q<N><suffix>_logical_plan.qpml.
\* "create": File::create()? fails; "write": serde_yaml::to_writer returns
\* Err and .unwrap() panics, which ends the process.
WriteQpml ==
    /\ pc = "qpml"
    /\ \E out \in {"ok"} \cup Failures({"create", "write"}) :
          /\ Spend(out = "ok")
          /\ written' = IF out \in {"ok", "write"}
                        THEN Append(written, Artifact("qpml")) ELSE written
          /\ CASE out = "ok" ->
                    /\ sinceStart' = sinceStart + 1
                    /\ pc' = "csv"
                    /\ UNCHANGED <<exit, error, query, failed>>
               [] out = "create" ->
                    /\ Return(FALSE, <<out, query>>)
                    /\ UNCHANGED sinceStart
               [] out = "write" ->
                    /\ pc' = "done"
                    /\ exit' = "panic"
                    /\ UNCHANGED <<error, query, failed, sinceStart>>
    /\ UNCHANGED <<inputs, results, registered, sql, durations, iteration,
                   total_duration_millis, i, batches, attempted, report>>

\* Mutant: only the first batch goes into the table.
CsvBatchesFirstOnly(n) == 1

\* Line 237: MemTable::try_new(batches[0].schema(), vec![batches]): the table
\* holds all n batches, as one partition; the first gives the schema.
CsvBatches(n) == n

\* Mutant: no result counts as empty.
IsEmptyNever(n) == FALSE

\* Line 233: batches.is_empty()
IsEmpty(n) == n = 0

\* Lines 232-241: the result goes to q<N><suffix>.csv unless it is empty;
\* MemTable::try_new()?, read_table()? or write_csv().await? may fail.
\* Line 194: then the loop turns to the next statement.
WriteCsv ==
    /\ pc = "csv"
    /\ \E out \in {"ok"} \cup (IF IsEmpty(batches) THEN {} ELSE Failures({"csv"})) :
          /\ Spend(out = "ok")
          /\ written' = IF IsEmpty(batches) THEN written
                        ELSE Append(written, Artifact("csv") \o <<CsvBatches(batches)>>)
          /\ IF out = "ok"
             THEN /\ sinceStart' = sinceStart + (IF IsEmpty(batches) THEN 0 ELSE 1)
                  /\ i' = i + 1
                  /\ pc' = "stmt"
                  /\ UNCHANGED <<exit, error, query, failed>>
             ELSE /\ Return(FALSE, <<out, query>>)
                  /\ UNCHANGED <<sinceStart, i>>
    /\ UNCHANGED <<inputs, results, registered, sql, durations, iteration,
                   total_duration_millis, batches, attempted, report>>

\* ------------------------------------------------------------ results file
\* Lines 159-163: serialise, File::create()?, BufWriter::new, w.write()?.
\* "buffered": the bytes fit the BufWriter's buffer and stay there;
\* "direct": they do not, and one write call stores them all;
\* "short": one write call stores only some of them (the count is not read);
\* "create", "write": the call returns Err and main returns it.
WriteReport ==
    /\ pc = "report"
    /\ \E out \in {"buffered", "direct"} \cup Failures({"create", "write", "short"}) :
          /\ Spend(out \in {"buffered", "direct"})
          /\ report' = [state |-> CASE out = "create" -> report.state
                                    [] out \in {"write", "buffered"} -> "empty"
                                    [] out = "short" -> "partial"
                                    [] out = "direct" -> "complete",
                        data |-> results,
                        buffered |-> (out = "buffered"),
                        writes |-> report.writes + 1]
          /\ IF out \in {"create", "write"}
             THEN MainErr(<<"report", out>>)
             ELSE /\ pc' = "return"
                  /\ UNCHANGED <<exit, error>>
    /\ UNCHANGED <<inputs, locals, results, registered, query, written,
                   attempted, failed>>

\* Lines 165-166: Ok(()) is returned; dropping `w` flushes what is buffered
\* and discards an error of that flush.
Finish ==
    /\ pc = "return"
    /\ \E flushed \in (IF report.buffered THEN Outcomes ELSE {TRUE}) :
          /\ Spend(flushed)
          /\ report' = [report EXCEPT
                           !.state = IF report.buffered /\ flushed
                                     THEN "complete" ELSE @,
                           !.buffered = FALSE]
    /\ pc' = "done"
    /\ exit' = "ok"
    /\ UNCHANGED <<inputs, locals, error, results, registered, query, written,
                   attempted, failed>>

Next == Configure \/ RegisterTable \/ RecordSetupTime \/ Dispatch
        \/ ReadQueryFile \/ BeginIteration \/ FinishQuery \/ BeginStatement
        \/ EndIteration \/ CtxSql \/ Collect
        \/ WritePlanTxt \/ WriteQpml \/ WriteCsv \/ WriteReport \/ Finish

Spec == Init /\ [][Next]_vars

\* ================================================================ properties
Range(f) == {f[n] : n \in DOMAIN f}
Last(f) == f[Len(f)]

\* The suite 1..=22 as a sequence.
SuiteSeq == [n \in 1..(LastQuery - FirstQuery + 1) |-> FirstQuery + n - 1]

\* The query numbers the command line asks for, in order.
Requested == IF opt.query # None THEN <<opt.query>> ELSE SuiteSeq

IsPrefix(a, b) == Len(a) <= Len(b) /\ a = SubSeq(b, 1, Len(a))

\* Every table was registered: the dataset binding succeeded.
Bound == Len(registered) = Len(TABLES)

\* main is inside a call of execute_query.
InQuery == pc \in {"iter", "stmt", "sql", "collect", "plan_txt", "qpml", "csv"}

QueryNos(qt) == [n \in 1..Len(qt) |-> qt[n][1]]
FailedNos == {f[1] : f \in Range(failed)}

\* The requested single query was attempted and left no result.
SingleFailed ==
    /\ opt.query # None
    /\ pc = "done"
    /\ attempted # <<>>
    /\ results.query_times = <<>>

\* ------------------------------------------------------------------- C1
\* C1: in a run whose dataset binding succeeded, the queries attempted are
\* always a prefix of the requested ones (the single requested query, or
\* 1..22 in ascending order), and the run ends only with all of them
\* attempted, whatever failed on the way.
C1_AllRequestedAttempted ==
    /\ IsPrefix(attempted, Requested)
    /\ (pc = "done" /\ Bound) => attempted = Requested

\* ------------------------------------------------------------------- C2
\* C2 as stated: a run whose dataset binding succeeded ends with exactly one
\* report write, made after all requested queries were attempted.
C2_ReportExactlyOnce ==
    /\ report.writes > 0 => attempted = Requested
    /\ (pc = "done" /\ Bound) => report.writes = 1

\* C2 as amended: the report write happens at most once, never while a
\* query is attempted nor before all requested queries were attempted;
\* exactly once when every requested attempt has returned (and, for a single
\* requested query, succeeded); never when the requested single query failed.
C2_ReportAtMostOnceAfterQueries ==
    /\ report.writes <= 1
    /\ report.writes > 0 => attempted = Requested /\ pc \in {"return", "done"}
    /\ (InQuery \/ pc = "read") => report.writes = 0
    /\ (pc = "done" /\ opt.query = None
          /\ Len(results.query_times) + Len(failed) = Len(SuiteSeq))
         => report.writes = 1
    /\ (pc = "done" /\ opt.query # None /\ results.query_times # <<>>)
         => report.writes = 1
    /\ SingleFailed => report.writes = 0

\* A suite run with a failed query has ended with its one report write.
C2_Witness ==
    /\ pc = "done"
    /\ opt.query = None
    /\ failed # <<>>
    /\ Len(attempted) = Len(SuiteSeq)
    /\ report.writes = 1

\* ------------------------------------------------------------------- C3
\* The first table of TABLES whose data file is absent (0 when none is).
FirstMissing ==
    IF \A n \in 1..Len(TABLES) : TABLES[n] \in dataFiles THEN 0
    ELSE CHOOSE n \in 1..Len(TABLES) :
            /\ TABLES[n] \notin dataFiles
            /\ \A m \in 1..(n - 1) : TABLES[m] \in dataFiles

\* C3: tables are registered in the order of TABLES and only when their
\* file exists; with a file missing the binding ends with the error naming
\* the first missing table, at most the tables before it are registered, no
\* query is ever attempted and main never gets past the binding.
C3_BindingFailsAtFirstMissing ==
    /\ IsPrefix(registered, TABLES)
    /\ \A table \in Range(registered) : table \in dataFiles
    /\ FirstMissing # 0 =>
          /\ Len(registered) < FirstMissing
          /\ attempted = <<>>
          /\ report.writes = 0
          /\ pc \in {"config", "register", "done"}
          /\ pc = "done" =>
                /\ exit = "err"
                /\ \/ /\ error = <<"Path does not exist", TABLES[FirstMissing]>>
                      /\ Len(registered) = FirstMissing - 1
                   \/ error[1] = "register_parquet"
    /\ pc \notin {"config", "register", "done"} => Bound

\* nation.parquet and part.parquet are missing: the binding has failed at
\* nation, after customer and lineitem.
C3_Witness ==
    /\ pc = "done"
    /\ dataFiles = Range(TABLES) \ {"nation", "part"}
    /\ error = <<"Path does not exist", "nation">>
    /\ registered = <<"customer", "lineitem">>

\* ------------------------------------------------------------------- C4
BindingFailed == pc = "done" /\ ~Bound
ReportFailed == report.writes > 0 /\ report.state # "complete"

\* C4: the run ends with a failure status exactly when the dataset binding
\* failed, the requested single query failed, or the report write failed.
C4_FailureExactlyWhenFatal ==
    pc = "done" =>
       ((exit # "ok") <=> (BindingFailed \/ SingleFailed \/ ReportFailed))

\* ------------------------------------------------------------------- C5
\* C5: when the requested single query fails, for whatever cause and at
\* whatever point, the run ends with a failure status and the results file
\* was never written nor created.
C5_SingleFailureNeverReports ==
    SingleFailed =>
       /\ exit \in {"err", "panic"}
       /\ report.writes = 0
       /\ report.state = "absent"

\* The requested query failed in collect() after a completed iteration.
C5_Witness ==
    /\ SingleFailed
    /\ exit = "err"
    /\ error[1] = "collect"
    /\ durations # <<>>

\* ------------------------------------------------------------------- C6
\* C6: in a suite run, the query results handed to the report write are
\* those of the queries that did not fail, one each, in ascending order.
C6_ReportHoldsSucceededQueries ==
    (opt.query = None /\ report.writes > 0) =>
       /\ QueryNos(report.data.query_times)
            = SelectSeq(SuiteSeq, LAMBDA q : q \notin FailedNos)
       /\ FailedNos \cap Range(QueryNos(report.data.query_times)) = {}

\* Query 5 is the only one that failed; the report holds the other 21.
C6_Witness ==
    /\ opt.query = None
    /\ report.writes = 1
    /\ FailedNos = {5}
    /\ Len(report.data.query_times) = 21

\* ------------------------------------------------------------------- C7
\* C7: every recorded query result has exactly `iterations` durations, each
\* of them >= 0.
C7_OneDurationPerIteration ==
    \A n \in 1..Len(results.query_times) :
       LET d == results.query_times[n][2] IN
          /\ Len(d) = opt.iterations
          /\ \A j \in 1..Len(d) : d[j] >= 0

\* A two-statement query was recorded after two iterations, and so was a
\* query whose file holds no statement.
C7_Witness ==
    /\ opt.iterations = 2
    /\ \E n \in 1..Len(results.query_times) :
          Len(Statements(QueryFile(results.query_times[n][1]))) = 2
    /\ \E n \in 1..Len(results.query_times) :
          Len(Statements(QueryFile(results.query_times[n][1]))) = 0

\* ------------------------------------------------------------------- C8
\* The number of statements of a text: the characters that start one.
StartsStatement(text, j) ==
    /\ text[j] \notin {";", " "}
    /\ \A m \in 1..(j - 1) :
          text[m] \notin {";", " "} => \E n \in (m + 1)..(j - 1) : text[n] = ";"

CountStatements(text) ==
    Cardinality({j \in 1..Len(text) : StartsStatement(text, j)})

RECURSIVE SumTimes(_, _, _)
SumTimes(q, it, k) ==
    IF k = 0 THEN 0
    ELSE SumTimes(q, it, k - 1)
            + SqlTime(q, it, k - 1) + CollectTime(q, it, k - 1)

\* C8: the duration recorded for an iteration is the sum of the times the
\* engine took for the k statements in that iteration, and nothing else
\* (read whenever main is between two calls of execute_query, or past them).
C8_DurationIsSumOfStatements ==
    ~InQuery =>
       \A n \in 1..Len(results.query_times) :
          LET q == results.query_times[n][1]
              d == results.query_times[n][2]
              k == CountStatements(QueryFile(q))
          IN  \A it \in 0..(Len(d) - 1) : d[it + 1] = SumTimes(q, it, k)

\* A two-statement query whose statements both took time was recorded with
\* two iterations of different durations.
C8_Witness ==
    \E n \in 1..Len(results.query_times) :
       LET q == results.query_times[n][1]
           d == results.query_times[n][2]
       IN  /\ CountStatements(QueryFile(q)) = 2
           /\ Len(d) = 2
           /\ d[1] # d[2]
           /\ SqlTime(q, 0, 0) + CollectTime(q, 0, 0) > 0
           /\ SqlTime(q, 0, 1) + CollectTime(q, 0, 1) > 0

\* ------------------------------------------------------------------- C9
\* execute_query has just returned Ok for the query attempted last.
JustSucceeded ==
    /\ pc \in {"read", "report"}
    /\ attempted # <<>>
    /\ results.query_times # <<>>
    /\ Last(results.query_times)[1] = Last(attempted)

\* The plan files of query q with k statements, in the order written.
PlanNames(q, k) ==
    IF k = 1 THEN <<<<q, 0, "txt">>, <<q, 0, "qpml">>>>
    ELSE [n \in 1..(2 * k) |->
            <<q, (n + 1) \div 2, IF n % 2 = 1 THEN "txt" ELSE "qpml">>]

\* C9: the batch has as many statements as the file has non-empty ones;
\* after a successful run the plan files written are q<N>_logical_plan.*
\* for one statement and q<N>_part_1.. q<N>_part_k for k > 1 (none when
\* there was no iteration), and a csv file carries one of those names.
C9_BatchLengthAndArtifactNames ==
    /\ InQuery => Len(sql) = CountStatements(QueryFile(query))
    /\ JustSucceeded =>
          LET q == Last(attempted)
              k == CountStatements(QueryFile(q))
          IN  /\ SelectSeq(written, LAMBDA a : a[3] # "csv")
                   = IF opt.iterations = 0 THEN <<>> ELSE PlanNames(q, k)
              /\ \A a \in Range(written) :
                    /\ a[1] = q
                    /\ a[2] \in (IF k = 1 THEN {0} ELSE 1..k)

\* A two-statement query has run successfully and left its plan files.
C9_Witness ==
    /\ JustSucceeded
    /\ CountStatements(QueryFile(Last(attempted))) = 2
    /\ Len(written) >= 4

\* A one-statement query has run successfully and left its plan files.
C9_WitnessSingle ==
    /\ JustSucceeded
    /\ CountStatements(QueryFile(Last(attempted))) = 1
    /\ Len(written) >= 2

\* ------------------------------------------------------------------ C10
\* Writing an artifact of some query failed.
ArtifactWriteFailed ==
    \/ exit = "panic"
    \/ \E f \in Range(failed) : f[2] = "ArtifactWriteError"

\* C10: a suite run in which writing an artifact failed does not abort:
\* all 22 queries are attempted and the report is written.
C10_ArtifactFailureDoesNotAbort ==
    (opt.query = None /\ pc = "done" /\ ArtifactWriteFailed) =>
       /\ exit # "panic"
       /\ attempted = SuiteSeq
       /\ report.writes = 1

\* ------------------------------------------------------------------ C11
\* C11: a run that ends with success has left the complete serialization
\* of the results in the results file.
C11_SuccessMeansCompleteReport ==
    exit = "ok" => report.state = "complete"

\* ------------------------------------------------------------------ C12
NoDuplicates(f) == \A m, n \in 1..Len(f) : f[m] = f[n] => m = n

\* C12: an artifact file is written only while iteration 0 of a query runs
\* (so never when there is no iteration), and no file twice in one call.
C12_ArtifactsOnlyInFirstIteration ==
    [][Len(written') > Len(written) =>
          /\ iteration = 0
          /\ iteration' = 0
          /\ opt.iterations > 0
          /\ NoDuplicates(written')]_vars

\* The second iteration of a two-statement query has run to its end, with
\* the artifacts of the first iteration in place.
C12_Witness ==
    /\ pc = "iter"
    /\ iteration = 2
    /\ Len(sql) = 2
    /\ Len(written) >= 4

\* ------------------------------------------------------------------ C13
\* The timed region: `start` was taken (line 205) and start.elapsed()
\* (line 208) was not read yet.
TimerRunning == pc \in {"sql", "collect"}

\* C13: the timed region opens with no time passed before the statement is
\* submitted, the time read when it closes is that of the submission and of
\* the collection of the rows, and a step that writes an artifact is taken
\* with the timer stopped and leaves the totals alone.
C13_ArtifactsOutsideTimedRegion ==
    [][/\ (~TimerRunning /\ TimerRunning') => (pc' = "sql" /\ sinceStart' = 0)
       /\ (pc = "collect" /\ InQuery' /\ pc' # "collect") =>
             total_duration_millis' = total_duration_millis
                + SqlTime(query, iteration, i) + CollectTime(query, iteration, i)
       /\ Len(written') > Len(written) =>
             /\ ~TimerRunning
             /\ ~TimerRunning'
             /\ total_duration_millis' = total_duration_millis
             /\ durations' = durations]_vars

\* The first statement's artifacts are written: time has passed since
\* `start`, and the running total holds only the statement's own time.
C13_Witness ==
    /\ pc = "stmt"
    /\ iteration = 0
    /\ i = 1
    /\ Len(written) = 3
    /\ total_duration_millis > 0
    /\ sinceStart = total_duration_millis + 3

\* ------------------------------------------------------------------ C14
CsvFiles == {a \in Range(written) : a[3] = "csv"}

\* The 0-based index of the statement an artifact belongs to.
StatementOf(a) == IF a[2] = 0 THEN 0 ELSE a[2] - 1

HasStatementText(text) == \E j \in 1..Len(text) : text[j] \notin {";", " "}

\* C15 as stated: every query file of the model is non-empty, so its batch
\* has at least one statement.
C15_NonEmptyFileHasStatement ==
    InQuery => (Len(QueryFile(query)) > 0 => Len(sql) >= 1)

\* C15 as amended: a file with some character other than ';' and whitespace
\* gives a batch of at least one statement; every statement of a batch has
\* such a character and no ';'; and whatever the length of the batch, the
\* durations collected so far are the sums over its statements.
C15_BatchOfNonBlankStatements ==
    InQuery =>
       /\ HasStatementText(QueryFile(query)) => Len(sql) >= 1
       /\ \A n \in 1..Len(sql) :
             /\ HasStatementText(sql[n])
             /\ \A j \in 1..Len(sql[n]) : sql[n][j] # ";"
       /\ Len(durations) = iteration
       /\ \A it \in 0..(Len(durations) - 1) :
             durations[it + 1] = SumTimes(query, it, Len(sql))

\* Two iterations of a two-statement batch are collected.
C15_Witness ==
    /\ pc = "iter"
    /\ Len(sql) = 2
    /\ Len(durations) = 2

\* A file of separators and whitespace only has given an empty batch.
C15_WitnessBlankFile ==
    /\ pc = "iter"
    /\ Len(QueryFile(query)) > 0
    /\ sql = <<>>

\* ------------------------------------------------------------------ C16
\* r2 is r1 with one query result more at the end, and nothing else changed.
AppendsOneResult(r1, r2) ==
    /\ Len(r2.query_times) = Len(r1.query_times) + 1
    /\ SubSeq(r2.query_times, 1, Len(r1.query_times)) = r1.query_times
    /\ [r2 EXCEPT !.query_times = r1.query_times] = r1

\* The step ends the call of execute_query with a failure.
CallFails ==
    \/ Len(failed') > Len(failed)
    \/ exit = "running" /\ exit' \in {"err", "panic"}

\* C16: a step of execute_query leaves the results alone or appends one
\* query result for the running query, which it does only in the step that
\* returns Ok after all iterations; a step that fails the call leaves the
\* results alone, whatever durations were collected.
C16_QueryOnlyAppendsOneResult ==
    [][(InQuery \/ pc = "read") =>
          /\ \/ results' = results
             \/ /\ AppendsOneResult(results, results')
                /\ Last(results'.query_times) = <<query, durations>>
                /\ Len(durations) = opt.iterations
                /\ ~InQuery'
          /\ CallFails => results' = results]_vars

\* In a suite run a query has failed in the engine after a completed
\* iteration; the results still hold those of earlier queries, and nothing
\* of the failed one.
C16_Witness ==
    /\ pc = "read"
    /\ failed # <<>>
    /\ Last(failed) = <<Last(attempted), "EngineExecutionError">>
    /\ iteration >= 1
    /\ durations # <<>>
    /\ results.query_times # <<>>
    /\ Last(attempted) \notin Range(QueryNos(results.query_times))

\* ------------------------------------------------------------------ C17
HasFile(q, part, kind) ==
    \E a \in Range(written) : a[1] = q /\ a[2] = part /\ a[3] = kind

\* C17: after a successful run with at least one iteration, every statement
\* has its two plan files, and its csv file exactly when its result in
\* iteration 0 was not empty; the step that finds the result empty writes
\* nothing, fails nothing and goes on to the next statement.
C17_EmptyResultSkipsCsvOnly ==
    /\ [](JustSucceeded /\ opt.iterations > 0 =>
            LET q == Last(attempted)
                k == CountStatements(QueryFile(q))
            IN  \A n \in 0..(k - 1) :
                   LET part == IF k > 1 THEN n + 1 ELSE 0 IN
                      /\ HasFile(q, part, "txt")
                      /\ HasFile(q, part, "qpml")
                      /\ HasFile(q, part, "csv") <=> NumBatches(q, n) > 0)
    /\ [][(pc = "csv" /\ batches = 0) =>
             /\ pc' = "stmt"
             /\ i' = i + 1
             /\ written' = written
             /\ failed' = failed
             /\ exit' = exit
             /\ faults' = faults]_vars

\* A two-statement query has succeeded; the result of one statement was
\* empty and that of the other was not.
C17_Witness ==
    /\ JustSucceeded
    /\ opt.iterations = 2
    /\ LET q == Last(attempted) IN
          /\ CountStatements(QueryFile(q)) = 2
          /\ \E n \in 0..1 : NumBatches(q, n) = 0 /\ NumBatches(q, 1 - n) > 0

\* ------------------------------------------------------------------ C18
\* C18: the configuration is stored once, from its initial empty value,
\* before any table is registered; the table registration time is stored
\* once, from its initial 0, when all tables are registered and no query
\* was attempted; both are in place when the first query is attempted and
\* are what the report write is given.
C18_ConfigAndSetupTimeRecordedOnce ==
    /\ [](attempted # <<>> =>
            /\ results.config = EngineConfig
            /\ results.register_tables_time = SetupTime)
    /\ [](report.writes > 0 =>
            /\ report.data.config = EngineConfig
            /\ report.data.register_tables_time = SetupTime)
    /\ [][results'.config # results.config =>
             /\ results.config = {}
             /\ pc = "config"
             /\ registered = <<>>
             /\ attempted = <<>>]_vars
    /\ [][results'.register_tables_time # results.register_tables_time =>
             /\ results.register_tables_time = 0
             /\ Bound
             /\ pc' = "match"
             /\ attempted = <<>>]_vars

\* The report of a suite run with a failed query carries the values stored
\* at startup.
C18_Witness ==
    /\ report.writes = 1
    /\ opt.query = None
    /\ failed # <<>>
    /\ report.data.register_tables_time = 2
    /\ report.data.config = {<<"target_partitions", 2>>}

\* ------------------------------------------------------------------ C19
\* Statement n of the running query has all its artifacts of iteration 0.
ArtifactsDone(n) ==
    LET part == IF Len(sql) > 1 THEN n + 1 ELSE 0 IN
       /\ HasFile(query, part, "txt")
       /\ HasFile(query, part, "qpml")
       /\ HasFile(query, part, "csv") <=> NumBatches(query, n) > 0

\* Statement n of the running query has no artifact yet.
ArtifactsNone(n) ==
    LET part == IF Len(sql) > 1 THEN n + 1 ELSE 0 IN
       \A a \in Range(written) : a[2] # part

\* C19: while a query runs, statement i of iteration `iteration` is the one
\* at the engine: the earlier iterations are complete and pushed, the
\* earlier statements of this iteration are collected and summed (and, in
\* iteration 0, have their artifacts, while statement i has none before it
\* is collected), the query has no result in the record yet, and every
\* query attempted earlier has its result or its failure recorded.  The
\* statement index moves on by one, after the collection or the artifacts,
\* and the iteration index by one, after the last statement.
C19_OneStatementAtATimeInOrder ==
    /\ [](InQuery =>
            /\ Len(durations) = iteration
            /\ query \notin Range(QueryNos(results.query_times))
            /\ opt.query = None =>
                  Len(results.query_times) + Len(failed) = Len(attempted) - 1
            /\ pc \in {"sql", "collect", "plan_txt", "qpml", "csv"} =>
                  /\ i < Len(sql)
                  /\ iteration < opt.iterations
                  /\ total_duration_millis
                       = SumTimes(query, iteration,
                                  IF TimerRunning THEN i ELSE i + 1)
            /\ (TimerRunning /\ iteration = 0) =>
                  /\ \A n \in 0..(i - 1) : ArtifactsDone(n)
                  /\ ArtifactsNone(i))
    /\ [][(InQuery /\ InQuery') =>
             /\ query' = query
             /\ sql' = sql
             /\ \/ i' = i /\ iteration' = iteration
                \/ i' = i + 1 /\ iteration' = iteration /\ pc \in {"collect", "csv"}
                \/ i' = 0 /\ iteration' = iteration /\ pc = "iter"
                \/ i' = i /\ iteration' = iteration + 1 /\ i = Len(sql)]_vars

\* The second statement of the second iteration is at the engine.
C19_Witness ==
    /\ pc = "collect"
    /\ iteration = 1
    /\ i = 1
    /\ Len(written) >= 4

====
